---- MODULE Spec2Model ----
(***************************************************************************)
(* A model of SikkaClient (src/lib/client.ts): the session triple          *)
(* requestKey / refreshKey / requestKeyExpiresAt of each client instance,  *)
(* the token endpoint and the domain endpoints as nondeterministic         *)
(* servers, and the asynchronous operations authenticate,                  *)
(* refreshAuthentication, get and post as run-to-completion steps between  *)
(* their awaits.  Two calls may be in flight at a time.                    *)
(***************************************************************************)
EXTENDS Integers, Sequences, FiniteSets, TLC

\* ------------------------------------------------------------------ bounds

\* The clock runs from tick 0 to tick MaxTick, half an hour per tick.
MaxTick == 1

\* Response bodies of the domain endpoints are texts of at most MaxBody characters.
MaxBody == 1

\* A parameter object handed to a list accessor supplies at most MaxParams keys.
MaxParams == 2

\* An item sequence returned by a domain endpoint holds at most MaxItems entries.
MaxItems == 2

\* --------------------------------------------------------------- constants

\* 60 * 60 * 1_000: the look-ahead margin of ensureAuthenticated.
OneHourMs == 60 * 60 * 1000

\* The granularity of the modelled clock and of the end_time values.
StepMs == OneHourMs \div 2

\* The instances under study, and the slots of calls in flight.
Clients == {"c1", "c2"}

Slots == {1, 2}

\* JavaScript's null, as the session fields hold it before authenticate.
Null == "<null>"

\* JavaScript's undefined, as a field the response body lacks reads.
Undefined == "<undefined>"

\* The request_key / refresh_key pairs a success response may carry: two
\* well-formed pairs, and for each key a pair where it is the empty string
\* and a pair where the body lacks it.
Grants == {[request_key |-> "rk1", refresh_key |-> "fk1"],
           [request_key |-> "rk2", refresh_key |-> "fk2"],
           [request_key |-> "", refresh_key |-> "fk1"],
           [request_key |-> Undefined, refresh_key |-> "fk1"],
           [request_key |-> "rk1", refresh_key |-> ""],
           [request_key |-> "rk1", refresh_key |-> Undefined]}

\* Date values: null, a valid instant (ms), or an Invalid Date (NaN time).
NullDate == [kind |-> "null"]

InvalidDate == [kind |-> "invalid"]

ValidDate(t) == [kind |-> "date", time |-> t]

\* end_time strings of the token response: ISO instants on the clock's grid,
\* up to two ticks beyond its end, and one text that is no date.
EndTimes == {[iso |-> TRUE, time |-> k * StepMs] : k \in 0..(MaxTick + 2)}
              \cup {[iso |-> FALSE, time |-> 0]}

\* new Date(response.end_time)
NewDate(s) == IF s.iso THEN ValidDate(s.time) ELSE InvalidDate

\* `!x` negated, for a string-or-null field.
Truthy(x) == x \notin {Null, Undefined, ""}

\* `d && ...` for a Date-or-null field: every Date object is truthy.
TruthyDate(d) == d.kind # "null"

\* d < new Date(t), d > new Date(t): comparisons with NaN are false.
DateLess(d, t) == d.kind = "date" /\ d.time < t

DateGreater(d, t) == d.kind = "date" /\ d.time > t

\* Credentials of each instance (constructor).
credentials == [c \in Clients |->
                  [appId |-> "app", appKey |-> "key",
                   officeId |-> "office-" \o c, secretKey |-> "secret-" \o c]]

\* ------------------------------------------------------------------- state

VARIABLES
    now,                  \* Date.now(), in ms
    requestKey,           \* per client: string | null
    refreshKey,           \* per client: string | null
    requestKeyExpiresAt,  \* per client: Date | null
    calls,                \* per slot: the call in flight there, or Idle
    last                  \* what the step just taken completed, or Nothing

vars == <<now, requestKey, refreshKey, requestKeyExpiresAt, calls, last>>

session == <<requestKey, refreshKey, requestKeyExpiresAt>>

NoBody == [grant_type |-> "none"]

NoReq == [method |-> "none"]

NoParams == <<>>

NoValue == [kind |-> "none"]

\* Bodies of a non-success token response: not JSON; the JSON null; `{}`.
NoErrorBody == [kind |-> "unparseable"]

NullErrorBody == [kind |-> "null"]

EmptyErrorBody == [kind |-> "object", error_description |-> Undefined,
                   error |-> Undefined, message |-> Undefined]

\* A call record.  accessor and input name the resource accessor that made
\* the get or post, if one did, and the argument it was given.  keyReqs and
\* domainReqs count the requests the call has sent to the token endpoint and
\* to its domain endpoint; keyBody is the body of the token request in
\* flight, req the domain request sent.  Of a traced get or post that
\* refreshes, startKey is the token the session held when it started and
\* granted the token its refresh returned.
Idle == [op |-> "none", client |-> "none", pc |-> "idle", params |-> NoParams,
         accessor |-> "none", input |-> NoParams,
         traced |-> FALSE, startKey |-> Null, granted |-> Null, logs |-> <<>>,
         keyReqs |-> 0, domainReqs |-> 0, keyBody |-> NoBody, req |-> NoReq]

\* What a step reports of the call it completed: the operation, its outcome
\* (a rejection, or "ok" with the value returned) and the requests it had sent.
Nothing == [op |-> "none", client |-> "none", pc |-> "idle",
            keyReqs |-> 0, domainReqs |-> 0, result |-> "none", value |-> NoValue,
            logs |-> <<>>]

Init ==
    /\ now = 0
    /\ requestKey = [c \in Clients |-> Null]
    /\ refreshKey = [c \in Clients |-> Null]
    /\ requestKeyExpiresAt = [c \in Clients |-> NullDate]
    /\ calls = [s \in Slots |-> Idle]
    /\ last = Nothing

\* ------------------------------------------------------- the token endpoint

Digit == <<"1", "2", "3", "4", "5", "6", "7", "8", "9">>

\* String(n) for a non-negative integer: its decimal digits.
RECURSIVE String(_)
String(n) ==
    IF n < 10 THEN (IF n = 0 THEN "0" ELSE Digit[n])
    ELSE String(n \div 10) \o (IF n % 10 = 0 THEN "0" ELSE Digit[n % 10])

\* How the fetch of POST /v4/request_key may end: it rejects (no response);
\* a non-success status; a success status whose body is no JSON; a success
\* status with a JSON object whose request_key, refresh_key and end_time are
\* whatever the server put there.
\* The status, the reason phrase and the body of a non-success response are
\* read only for the error message; the body here is `{}`.
KeyResponses ==
    {[failed |-> TRUE, ok |-> FALSE, json |-> FALSE, request_key |-> "",
      refresh_key |-> "", end_time |-> [iso |-> FALSE, time |-> 0],
      status |-> 0, statusText |-> "", errorBody |-> NoErrorBody]}
    \cup {[failed |-> FALSE, ok |-> FALSE, json |-> TRUE, request_key |-> "",
           refresh_key |-> "", end_time |-> [iso |-> FALSE, time |-> 0],
           status |-> 401, statusText |-> "Unauthorized", errorBody |-> EmptyErrorBody]}
    \cup {[failed |-> FALSE, ok |-> TRUE, json |-> FALSE, request_key |-> "",
           refresh_key |-> "", end_time |-> [iso |-> FALSE, time |-> 0],
           status |-> 200, statusText |-> "OK", errorBody |-> NoErrorBody]}
    \cup {[failed |-> FALSE, ok |-> TRUE, json |-> TRUE,
            request_key |-> g.request_key, refresh_key |-> g.refresh_key,
            end_time |-> e,
            status |-> 200, statusText |-> "OK", errorBody |-> NoErrorBody] :
              g \in Grants, e \in EndTimes}

\* The non-success responses of the token endpoint in full: two statuses,
\* and a body that is no JSON, the JSON null, or an object whose
\* error_description, error and message are each missing, null, empty or a
\* text.
ErrorBodies ==
    {NoErrorBody, NullErrorBody}
    \cup {[kind |-> "object", error_description |-> d, error |-> e, message |-> m] :
            d \in {Undefined, Null, "", "Invalid secret key"},
            e \in {Undefined, Null, "", "invalid_credentials"},
            m \in {Undefined, Null, "", "Bad request"}}

ErrorKeyResponses ==
    {[failed |-> FALSE, ok |-> FALSE, json |-> b.kind # "unparseable",
      request_key |-> "", refresh_key |-> "",
      end_time |-> [iso |-> FALSE, time |-> 0],
      status |-> st.status, statusText |-> st.statusText, errorBody |-> b] :
        st \in {[status |-> 401, statusText |-> "Unauthorized"],
                [status |-> 500, statusText |-> "Internal Server Error"]},
        b \in ErrorBodies}

\* a ?? b
coalesce(a, b) == IF a \in {Null, Undefined} THEN b ELSE a

\* errorMessage with `error` consulted before `error_description`.
errorMessageErrorFirst(resp) ==
    LET fallback == String(resp.status) \o " " \o resp.statusText
        errorBody == resp.errorBody
    IN  IF errorBody.kind = "object"
        THEN coalesce(errorBody.error,
                 coalesce(errorBody.error_description,
                     coalesce(errorBody.message, fallback)))
        ELSE fallback

\* requestNewKey's errorMessage on a non-success response: the status line,
\* replaced by the first of error_description, error, message that is
\* neither undefined nor null when response.json() resolves to an object;
\* when json() rejects, or resolves to null so that reading a property of
\* it throws, the catch block leaves the status line.
errorMessage(resp) ==
    LET fallback == String(resp.status) \o " " \o resp.statusText
        errorBody == resp.errorBody
    IN  IF errorBody.kind = "object"
        THEN coalesce(errorBody.error_description,
                 coalesce(errorBody.error,
                     coalesce(errorBody.message, fallback)))
        ELSE fallback

\* The value a rejection of requestNewKey carries: the message of the Error
\* thrown for a non-success response.
thrownValue(out, resp) ==
    IF out = "AuthenticationFailed"
    THEN [kind |-> "message", text |-> "Sikka authentication failed: " \o errorMessage(resp)]
    ELSE NoValue

\* requestNewKey without its `if (!response.ok)` branch.
requestNewKeyIgnoringStatus(resp) ==
    IF resp.failed THEN "TypeError"
    ELSE IF ~resp.json THEN "SyntaxError"
    ELSE "ok"

\* requestNewKey's outcome on a response: the rejection it raises, or "ok".
requestNewKey(resp) ==
    IF resp.failed THEN "TypeError"
    ELSE IF ~resp.ok THEN "AuthenticationFailed"
    ELSE IF ~resp.json THEN "SyntaxError"
    ELSE "ok"

\* The body authenticate() sends.
authenticateBody(c) ==
    [grant_type |-> "request_key", app_id |-> credentials[c].appId,
     app_key |-> credentials[c].appKey, office_id |-> credentials[c].officeId,
     secret_key |-> credentials[c].secretKey, refresh_key |-> Null]

\* refreshBody with the office credentials of authenticate's body.
refreshBodyWithOffice(c) ==
    [grant_type |-> "refresh_key", app_id |-> credentials[c].appId,
     app_key |-> credentials[c].appKey, office_id |-> credentials[c].officeId,
     secret_key |-> credentials[c].secretKey, refresh_key |-> refreshKey[c]]

\* The body refreshAuthentication() sends.
refreshBody(c) ==
    [grant_type |-> "refresh_key", app_id |-> credentials[c].appId,
     app_key |-> credentials[c].appKey, office_id |-> Null,
     secret_key |-> Null, refresh_key |-> refreshKey[c]]

\* The expires_in values of the token response: seconds, sent as a decimal
\* string.
ExpiresInSeconds == {1800, 7200}

\* The token response r with expires_in in its body.
WithExpiresIn(r, seconds) ==
    [k \in DOMAIN r \cup {"expires_in"} |->
        IF k = "expires_in" THEN String(seconds) ELSE r[k]]

\* StoreKey that keeps the triple in place when it expires later than the
\* one the response brings.
StoreKeyIfLater(c, resp) ==
    IF /\ requestKeyExpiresAt[c].kind = "date"
       /\ NewDate(resp.end_time).kind = "date"
       /\ requestKeyExpiresAt[c].time > NewDate(resp.end_time).time
    THEN UNCHANGED session
    ELSE /\ requestKey' = [requestKey EXCEPT ![c] = resp.request_key]
         /\ refreshKey' = [refreshKey EXCEPT ![c] = resp.refresh_key]
         /\ requestKeyExpiresAt' =
                [requestKeyExpiresAt EXCEPT ![c] = NewDate(resp.end_time)]

\* StoreKey computing the expiry from expires_in and the clock.
StoreKeyFromExpiresIn(c, resp) ==
    /\ requestKey' = [requestKey EXCEPT ![c] = resp.request_key]
    /\ refreshKey' = [refreshKey EXCEPT ![c] = resp.refresh_key]
    /\ requestKeyExpiresAt' =
           [requestKeyExpiresAt EXCEPT ![c] =
               ValidDate(now + 1000 * (CHOOSE n \in ExpiresInSeconds :
                                          String(n) = resp.expires_in))]

\* StoreKey with only the first of the three assignments.
StoreKeyTokenOnly(c, resp) ==
    /\ requestKey' = [requestKey EXCEPT ![c] = resp.request_key]
    /\ UNCHANGED <<refreshKey, requestKeyExpiresAt>>

\* The three assignments that follow `await this.requestNewKey(...)`.
StoreKey(c, resp) ==
    /\ requestKey' = [requestKey EXCEPT ![c] = resp.request_key]
    /\ refreshKey' = [refreshKey EXCEPT ![c] = resp.refresh_key]
    /\ requestKeyExpiresAt' =
           [requestKeyExpiresAt EXCEPT ![c] = NewDate(resp.end_time)]

\* requestKeyExpiresAt.toISOString(), evaluated for the closing log entry:
\* it throws a RangeError on an Invalid Date.
toISOStringThrows(d) == d.kind = "invalid"

\* ------------------------------------------------------- session operations

\* isAuthenticated() with the look-ahead margin of ensureAuthenticated.
isAuthenticatedWithMargin(c) ==
    IF ~Truthy(requestKey[c]) \/ ~TruthyDate(requestKeyExpiresAt[c])
    THEN FALSE
    ELSE DateGreater(requestKeyExpiresAt[c], now + OneHourMs)

\* isAuthenticated()
isAuthenticated(c) ==
    IF ~Truthy(requestKey[c]) \/ ~TruthyDate(requestKeyExpiresAt[c])
    THEN FALSE
    ELSE DateGreater(requestKeyExpiresAt[c], now)

\* getRequestKey(): the key, or the rejection.
getRequestKeyThrows(c) == ~Truthy(requestKey[c])

\* ensureAuthenticated(): its test on the expiry.
needsRefresh(c) ==
    /\ TruthyDate(requestKeyExpiresAt[c])
    /\ DateLess(requestKeyExpiresAt[c], now + OneHourMs)

\* ensureAuthenticated() without its `if (!this.requestKey)` guard.
ensureAuthenticatedUnguarded(c) ==
    IF needsRefresh(c)
    THEN IF ~Truthy(refreshKey[c]) THEN "NoRefreshKey" ELSE "refresh"
    ELSE "pass"

\* ensureAuthenticated() up to its first await: the rejection it raises at
\* once, "refresh" when it sends a refresh request, "pass" when it returns.
ensureAuthenticated(c) ==
    IF ~Truthy(requestKey[c]) THEN "NotAuthenticated"
    ELSE IF needsRefresh(c)
         THEN IF ~Truthy(refreshKey[c]) THEN "NoRefreshKey" ELSE "refresh"
         ELSE "pass"

\* log.debug(message, ...) made by a call.
debug(call, message) == [call EXCEPT !.logs = Append(call.logs, message)]

Finished(call, result, value) ==
    [op |-> call.op, client |-> call.client, pc |-> "done",
     keyReqs |-> call.keyReqs, domainReqs |-> call.domainReqs,
     result |-> result, value |-> value, logs |-> call.logs]

FreeSlot(s) == calls[s].pc = "idle" /\ \A t \in Slots : t < s => calls[t].pc # "idle"

NewCall(op, c, params) ==
    [Idle EXCEPT !.op = op, !.client = c, !.params = params]

\* authenticate(), up to `await this.requestNewKey(requestBody)`.
authenticate(s, c) ==
    /\ FreeSlot(s)
    /\ calls' = [calls EXCEPT ![s] =
           [debug(NewCall("authenticate", c, NoParams), "Sikka API: Authenticating")
               EXCEPT
               !.pc = "awaitKey", !.keyReqs = 1, !.keyBody = authenticateBody(c)]]
    /\ last' = Nothing
    /\ UNCHANGED <<now, session>>

\* refreshAuthentication() without its `if (!this.refreshKey)` guard.
refreshAuthenticationUnguarded(s, c) ==
    /\ FreeSlot(s)
    /\ calls' = [calls EXCEPT ![s] =
           [NewCall("refreshAuthentication", c, NoParams) EXCEPT
               !.pc = "awaitKey", !.keyReqs = 1, !.keyBody = refreshBody(c)]]
    /\ last' = Nothing
    /\ UNCHANGED <<now, session>>

\* refreshAuthentication(), up to `await this.requestNewKey(requestBody)`.
refreshAuthentication(s, c) ==
    /\ FreeSlot(s)
    /\ IF ~Truthy(refreshKey[c])
       THEN /\ last' = Finished(NewCall("refreshAuthentication", c, NoParams),
                                "NoRefreshKey", NoValue)
            /\ UNCHANGED calls
       ELSE /\ calls' = [calls EXCEPT ![s] =
                   [debug(NewCall("refreshAuthentication", c, NoParams),
                          "Sikka API: Refreshing authentication") EXCEPT
                       !.pc = "awaitKey", !.keyReqs = 1, !.keyBody = refreshBody(c)]]
            /\ last' = Nothing
    /\ UNCHANGED <<now, session>>

\* clearAuth() that leaves the refresh key in place.
clearAuthKeepingRefresh(c) ==
    /\ requestKey' = [requestKey EXCEPT ![c] = Null]
    /\ requestKeyExpiresAt' = [requestKeyExpiresAt EXCEPT ![c] = NullDate]
    /\ last' = Finished(NewCall("clearAuth", c, NoParams), "ok", NoValue)
    /\ UNCHANGED <<now, calls, refreshKey>>

\* clearAuth() as it would be if the session fields were shared by all instances.
clearAuthShared(c) ==
    /\ requestKey' = [d \in Clients |-> Null]
    /\ refreshKey' = [d \in Clients |-> Null]
    /\ requestKeyExpiresAt' = [d \in Clients |-> NullDate]
    /\ last' = Finished(NewCall("clearAuth", c, NoParams), "ok", NoValue)
    /\ UNCHANGED <<now, calls>>

\* clearAuth()
clearAuth(c) ==
    /\ requestKey' = [requestKey EXCEPT ![c] = Null]
    /\ refreshKey' = [refreshKey EXCEPT ![c] = Null]
    /\ requestKeyExpiresAt' = [requestKeyExpiresAt EXCEPT ![c] = NullDate]
    /\ last' = Finished(NewCall("clearAuth", c, NoParams), "ok", NoValue)
    /\ UNCHANGED <<now, calls>>

\* KeyResponse with an ensureAuthenticated() that checks the expiry again
\* after its refresh and refreshes once more while it is within the hour.
KeyResponseRechecking(s, resp) ==
    LET call == calls[s]
        c == call.client
        out == requestNewKey(resp)
        thrown == IF out # "ok" THEN out
                  ELSE IF toISOStringThrows(NewDate(resp.end_time))
                       THEN "RangeError" ELSE "ok"
        again == /\ call.keyReqs < 2
                 /\ Truthy(resp.refresh_key)
                 /\ DateLess(NewDate(resp.end_time), now + OneHourMs)
    IN  /\ call.pc = "awaitKey"
        /\ IF out = "ok" THEN StoreKey(c, resp) ELSE UNCHANGED session
        /\ IF thrown = "ok" /\ call.op \in {"get", "post"}
           THEN /\ calls' = [calls EXCEPT ![s] =
                       IF again
                       THEN [call EXCEPT !.keyReqs = call.keyReqs + 1,
                                         !.keyBody.refresh_key = resp.refresh_key]
                       ELSE [call EXCEPT !.pc = "ensured", !.keyBody = NoBody,
                                         !.granted = IF call.traced
                                                     THEN resp.request_key
                                                     ELSE Null]]
                /\ last' = Nothing
           ELSE /\ calls' = [calls EXCEPT ![s] = Idle]
                /\ last' = Finished(call, thrown, thrownValue(out, resp))
        /\ UNCHANGED now

\* KeyResponse of a refresh that a clearAuth() cancels: the triple is stored
\* only while the session still holds the refresh token that was sent.
KeyResponseUnlessCleared(s, resp) ==
    LET call == calls[s]
        c == call.client
        out == requestNewKey(resp)
        thrown == IF out # "ok" THEN out
                  ELSE IF toISOStringThrows(NewDate(resp.end_time))
                       THEN "RangeError" ELSE "ok"
        current == call.keyBody.grant_type = "request_key"
                      \/ call.keyBody.refresh_key = refreshKey[c]
    IN  /\ call.pc = "awaitKey"
        /\ IF out = "ok" /\ current THEN StoreKey(c, resp) ELSE UNCHANGED session
        /\ IF thrown = "ok" /\ call.op \in {"get", "post"}
           THEN /\ calls' = [calls EXCEPT ![s] =
                       [call EXCEPT !.pc = "ensured", !.keyBody = NoBody,
                                    !.granted = IF call.traced THEN resp.request_key
                                                ELSE Null]]
                /\ last' = Nothing
           ELSE /\ calls' = [calls EXCEPT ![s] = Idle]
                /\ last' = Finished(call, thrown, thrownValue(out, resp))
        /\ UNCHANGED now

\* KeyResponse with an ensureAuthenticated() that catches the rejection of its
\* refresh and lets the domain call go on.
KeyResponseSwallowing(s, resp) ==
    LET call == calls[s]
        c == call.client
        out == requestNewKey(resp)
        thrown == IF out # "ok" THEN out
                  ELSE IF toISOStringThrows(NewDate(resp.end_time))
                       THEN "RangeError" ELSE "ok"
    IN  /\ call.pc = "awaitKey"
        /\ IF out = "ok" THEN StoreKey(c, resp) ELSE UNCHANGED session
        /\ IF call.op \in {"get", "post"}
           THEN /\ calls' = [calls EXCEPT ![s] =
                       [call EXCEPT !.pc = "ensured", !.keyBody = NoBody,
                                    !.granted = IF call.traced THEN resp.request_key
                                                ELSE Null]]
                /\ last' = Nothing
           ELSE /\ calls' = [calls EXCEPT ![s] = Idle]
                /\ last' = Finished(call, thrown, thrownValue(out, resp))
        /\ UNCHANGED now

\* The token endpoint answers the request of the call in slot s, and the
\* continuation of authenticate / refreshAuthentication runs: the triple is
\* stored, then the closing log entry formats the expiry.
KeyResponse(s, resp) ==
    LET call == calls[s]
        c == call.client
        out == requestNewKey(resp)
        thrown == IF out # "ok" THEN out
                  ELSE IF toISOStringThrows(NewDate(resp.end_time))
                       THEN "RangeError" ELSE "ok"
        logged == IF thrown # "ok" THEN call
                  ELSE debug(call, IF call.op = "authenticate"
                                   THEN "Sikka API: Authenticated successfully"
                                   ELSE "Sikka API: Authentication refreshed")
    IN  /\ call.pc = "awaitKey"
        /\ IF out = "ok" THEN StoreKey(c, resp) ELSE UNCHANGED session
        /\ IF thrown = "ok" /\ call.op \in {"get", "post"}
           THEN /\ calls' = [calls EXCEPT ![s] =
                       [logged EXCEPT !.pc = "ensured", !.keyBody = NoBody,
                                    !.granted = IF call.traced THEN resp.request_key
                                                ELSE Null]]
                /\ last' = Nothing
           ELSE /\ calls' = [calls EXCEPT ![s] = Idle]
                /\ last' = Finished(logged, thrown, thrownValue(out, resp))
        /\ UNCHANGED now

\* ----------------------------------------------------- the domain endpoints

\* Characters of a response body: a blank, a digit, a letter.
Chars == {" ", "1", "x"}

Whitespace == {" "}

\* The texts of at most MaxBody characters.
Bodies == UNION {[1..n -> Chars] : n \in 0..MaxBody}

\* How the fetch of a domain request may end: it rejects; a non-success
\* status (its body is only quoted in the message); a success status with
\* any body.
DomainResponses ==
    {[failed |-> TRUE, ok |-> FALSE, status |-> 0, body |-> <<>>]}
    \cup [failed : {FALSE}, ok : {FALSE}, status : {401, 500}, body : {<<>>}]
    \cup [failed : {FALSE}, ok : {TRUE}, status : {200}, body : Bodies]

RECURSIVE TrimStart(_)
TrimStart(t) ==
    IF t # <<>> /\ Head(t) \in Whitespace THEN TrimStart(Tail(t)) ELSE t

RECURSIVE TrimEnd(_)
TrimEnd(t) ==
    IF t # <<>> /\ t[Len(t)] \in Whitespace
    THEN TrimEnd(SubSeq(t, 1, Len(t) - 1)) ELSE t

\* String.prototype.trim
Trim(t) == TrimEnd(TrimStart(t))

RECURSIVE NumberOf(_)
NumberOf(t) == IF t = <<>> THEN 0 ELSE 10 * NumberOf(SubSeq(t, 1, Len(t) - 1)) + 1

\* Lexical units of a paginated response: "{" stands for `{"items":[` and "}"
\* for `]}`; each unit between them is one transaction object.
TransactionOf ==
    [p |-> [transaction_sr_no |-> "1", transaction_type |-> "Procedure"],
     q |-> [transaction_sr_no |-> "2", transaction_type |-> "Procedure"],
     y |-> [transaction_sr_no |-> "3", transaction_type |-> "Payment"]]

\* JSON.parse on these texts: optional whitespace around one number, or
\* around one paginated response.  The result is the value, or the
\* SyntaxError.
JSONparse(t) ==
    LET core == Trim(t)
        inner == SubSeq(core, 2, Len(core) - 1)
    IN  IF core # <<>> /\ \A i \in 1..Len(core) : core[i] = "1"
        THEN [kind |-> "json", n |-> NumberOf(core)]
        ELSE IF /\ Len(core) >= 2
                /\ core[1] = "{"
                /\ core[Len(core)] = "}"
                /\ \A i \in 1..Len(inner) : inner[i] \in DOMAIN TransactionOf
             THEN [kind |-> "envelope",
                   items |-> [i \in 1..Len(inner) |-> TransactionOf[inner[i]]]]
             ELSE [kind |-> "SyntaxError"]

EmptyEnvelope == [kind |-> "envelope", items |-> <<>>]

\* get(): what it returns on a success response with body `text`.
getBody(text) ==
    IF text = <<>> \/ Trim(text) = <<>> THEN EmptyEnvelope ELSE JSONparse(text)

\* post() with the empty-body tolerance of get().
postBodyTolerant(text) ==
    IF text = <<>> \/ Trim(text) = <<>> THEN EmptyEnvelope ELSE JSONparse(text)

\* post(): what it returns on a success response with body `text`
\* (`await response.json()`).
postBody(text) == JSONparse(text)

\* URLSearchParams.set on a URL that has each key at most once.
searchParamsSet(q, key, value) ==
    [k \in DOMAIN q \cup {key} |-> IF k = key THEN value ELSE q[k]]

RECURSIVE SetAll(_, _, _)
SetAll(q, params, keys) ==
    IF keys = {} THEN q
    ELSE LET k == CHOOSE x \in keys : TRUE
         IN  SetAll(searchParamsSet(q, k, params[k]), params, keys \ {k})

\* The query of the URL get() builds: request_key, then the caller's entries.
getQuery(key, params) ==
    SetAll(searchParamsSet(<<>>, "request_key", key), params, DOMAIN params)

\* The query of the URL post() builds.
postQuery(key) == searchParamsSet(<<>>, "request_key", key)

\* The `Request-Key` header of both verbs.
requestKeyHeader(key) == key

\* The params a caller may hand to get().
ParamSets == {NoParams, [firstname |-> "John"],
              [firstname |-> "John", request_key |-> "other"]}

\* StartDomainCall that sends no refresh while one of the instance is in flight.
StartDomainCallSerialized(s, call) ==
    LET c == call.client
        e == ensureAuthenticated(c)
        inFlight == \E t \in Slots :
                       /\ calls[t].client = c
                       /\ calls[t].pc = "awaitKey"
                       /\ calls[t].keyBody.grant_type = "refresh_key"
    IN  /\ FreeSlot(s)
        /\ IF e = "refresh" /\ ~inFlight
           THEN /\ calls' = [calls EXCEPT ![s] = [call EXCEPT
                       !.pc = "awaitKey", !.keyReqs = 1, !.keyBody = refreshBody(c),
                       !.startKey = IF call.traced THEN requestKey[c] ELSE Null]]
                /\ last' = Nothing
           ELSE IF e \in {"pass", "refresh"}
           THEN /\ calls' = [calls EXCEPT ![s] = [call EXCEPT !.pc = "ensured"]]
                /\ last' = Nothing
           ELSE /\ last' = Finished(call, e, NoValue)
                /\ UNCHANGED calls
        /\ UNCHANGED <<now, session>>

\* get() / post(), through ensureAuthenticated() up to its first await.
StartDomainCall(s, call) ==
    LET c == call.client
        e == ensureAuthenticated(c)
    IN  /\ FreeSlot(s)
        /\ IF e = "refresh"
           THEN /\ calls' = [calls EXCEPT ![s] =
                       [debug(call, "Sikka API: Refreshing authentication") EXCEPT
                       !.pc = "awaitKey", !.keyReqs = 1, !.keyBody = refreshBody(c),
                       !.startKey = IF call.traced THEN requestKey[c] ELSE Null]]
                /\ last' = Nothing
           ELSE IF e = "pass"
           THEN /\ calls' = [calls EXCEPT ![s] = [call EXCEPT !.pc = "ensured"]]
                /\ last' = Nothing
           ELSE /\ last' = Finished(call, e, NoValue)
                /\ UNCHANGED calls
        /\ UNCHANGED <<now, session>>

get(s, c, params) == StartDomainCall(s, NewCall("get", c, params))

post(s, c) == StartDomainCall(s, NewCall("post", c, NoParams))

\* --------------------------------------------------- the resource accessors

\* The `if (params.<key>)` blocks of each list accessor, in order, with what
\* each assigns: the value itself, String(value), or 'true'.
patientsFields ==
    <<[key |-> "firstname", conv |-> "copy"], [key |-> "lastname", conv |-> "copy"],
      [key |-> "birthdate", conv |-> "copy"], [key |-> "patient_id", conv |-> "copy"],
      [key |-> "limit", conv |-> "String"], [key |-> "offset", conv |-> "String"]>>

claimsFields ==
    <<[key |-> "patient_id", conv |-> "copy"], [key |-> "claim_id", conv |-> "copy"],
      [key |-> "status", conv |-> "copy"], [key |-> "start_date", conv |-> "copy"],
      [key |-> "end_date", conv |-> "copy"],
      [key |-> "limit", conv |-> "String"], [key |-> "offset", conv |-> "String"]>>

paymentTypesFields ==
    <<[key |-> "code", conv |-> "copy"], [key |-> "customer_id", conv |-> "copy"],
      [key |-> "practice_id", conv |-> "copy"],
      [key |-> "is_adjustment_type", conv |-> "true"],
      [key |-> "is_debit_adjustment_type", conv |-> "true"],
      [key |-> "is_insurance_type", conv |-> "true"],
      [key |-> "are_credit_card_details_required", conv |-> "true"],
      [key |-> "limit", conv |-> "String"], [key |-> "offset", conv |-> "String"]>>

transactionsFields ==
    <<[key |-> "claim_sr_no", conv |-> "copy"], [key |-> "patient_id", conv |-> "copy"],
      [key |-> "transaction_type", conv |-> "copy"],
      [key |-> "limit", conv |-> "String"], [key |-> "offset", conv |-> "String"]>>

ListAccessors == {"patients", "claims", "paymentTypes", "transactions"}

accessorFields(accessor) ==
    CASE accessor = "patients" -> patientsFields
      [] accessor = "claims" -> claimsFields
      [] accessor = "paymentTypes" -> paymentTypesFields
      [] accessor = "transactions" -> transactionsFields

\* `if (params.<key>)`: the key is there and its value is truthy.
paramTruthy(params, f) ==
    /\ f.key \in DOMAIN params
    /\ CASE f.conv = "String" -> params[f.key] # 0
         [] f.conv = "true" -> params[f.key] = TRUE
         [] OTHER -> params[f.key] # ""

\* The value an `if` block assigns.
converted(f, value) ==
    CASE f.conv = "String" -> String(value)
      [] f.conv = "true" -> "true"
      [] OTHER -> value

\* queryParams.<key> = value
assign(q, key, value) ==
    [k \in DOMAIN q \cup {key} |-> IF k = key THEN value ELSE q[k]]

\* queryParams with every key the caller supplied, whatever its value.
RECURSIVE queryParamsUnfiltered(_, _)
queryParamsUnfiltered(fields, params) ==
    IF fields = <<>> THEN <<>>
    ELSE LET f == fields[Len(fields)]
             q == queryParamsUnfiltered(SubSeq(fields, 1, Len(fields) - 1), params)
         IN  IF f.key \in DOMAIN params
             THEN assign(q, f.key,
                         IF f.conv = "true" THEN (IF params[f.key] THEN "true" ELSE "false")
                         ELSE converted(f, params[f.key]))
             ELSE q

\* The queryParams object a list accessor builds from its params.
RECURSIVE queryParams(_, _)
queryParams(fields, params) ==
    IF fields = <<>> THEN <<>>
    ELSE LET f == fields[Len(fields)]
             q == queryParams(SubSeq(fields, 1, Len(fields) - 1), params)
         IN  IF paramTruthy(params, f)
             THEN assign(q, f.key, converted(f, params[f.key]))
             ELSE q

\* `response.items` of what get() returned.
itemsOf(data) ==
    IF data.kind = "envelope" THEN [kind |-> "list", items |-> data.items]
    ELSE [kind |-> "undefined"]

\* transactions.filter((txn) => txn.transaction_type === 'Procedure')
filter(items) == SelectSeq(items, LAMBDA txn : txn.transaction_type = "Procedure")

\* What the accessor returns, or is rejected with, given the outcome of its
\* get(): a rejection passes through; a list accessor returns
\* response.items; listProcedures filters them, which throws a TypeError when
\* there are none to call filter on.
accessorReturn(accessor, out) ==
    IF accessor = "none" \/ out.kind \in {"TypeError", "ApiRequestFailed", "SyntaxError"}
    THEN out
    ELSE IF accessor = "listProcedures"
         THEN IF itemsOf(out).kind = "list"
              THEN [kind |-> "list", items |-> filter(itemsOf(out).items)]
              ELSE [kind |-> "TypeError"]
         ELSE itemsOf(out)

\* get() and post() whose tokens are traced.
tracedGet(s, c) ==
    StartDomainCall(s, [NewCall("get", c, NoParams) EXCEPT !.traced = TRUE])

tracedPost(s, c) ==
    StartDomainCall(s, [NewCall("post", c, NoParams) EXCEPT !.traced = TRUE])

\* <accessor>.list(input), through get() up to its first await.
list(s, c, accessor, input) ==
    StartDomainCall(s,
        [NewCall("get", c, queryParams(accessorFields(accessor), input)) EXCEPT
            !.accessor = accessor, !.input = input])

\* transactions.listProcedures(claimSrNo), through transactions.list and
\* get() up to its first await.
listProcedures(s, c, claimSrNo) ==
    StartDomainCall(s,
        [NewCall("get", c, queryParams(transactionsFields, [claim_sr_no |-> claimSrNo]))
            EXCEPT !.accessor = "listProcedures", !.input = [claimSrNo |-> claimSrNo]])

\* The messages of the debug log entries of get() and post().
requestLog(op) ==
    IF op = "get" THEN "Sikka API GET request" ELSE "Sikka API POST request"

responseLog(op) ==
    IF op = "get" THEN "Sikka API GET response" ELSE "Sikka API POST response"

\* get() / post() reaches its closing log entry on this response: the status
\* is a success and the body has been parsed; get() has returned before it
\* when the body is empty or blank.
responseLogged(op, resp) ==
    /\ ~resp.failed
    /\ resp.ok
    /\ op = "get" => ~(resp.body = <<>> \/ Trim(resp.body) = <<>>)
    /\ JSONparse(resp.body).kind # "SyntaxError"

\* The request get() or post() sends with the key it read.
domainRequest(call, key) ==
    [method |-> IF call.op = "get" THEN "GET" ELSE "POST",
     query |-> IF call.op = "get" THEN getQuery(key, call.params) ELSE postQuery(key),
     header |-> requestKeyHeader(key)]

\* DomainSend stamping the token read before `await this.ensureAuthenticated()`.
DomainSendStale(s) ==
    LET call == calls[s]
        c == call.client
        key == IF call.keyReqs = 1 THEN call.startKey ELSE requestKey[c]
    IN  /\ call.pc = "ensured"
        /\ IF getRequestKeyThrows(c)
           THEN /\ calls' = [calls EXCEPT ![s] = Idle]
                /\ last' = Finished(call, "NotAuthenticated", NoValue)
           ELSE /\ calls' = [calls EXCEPT ![s] = [call EXCEPT
                       !.pc = "awaitDomain",
                       !.domainReqs = call.domainReqs + 1,
                       !.req = domainRequest(call, key)]]
                /\ last' = Nothing
        /\ UNCHANGED <<now, session>>

\* DomainSend reading this.requestKey without the guard of getRequestKey().
DomainSendUnguarded(s) ==
    LET call == calls[s]
        c == call.client
    IN  /\ call.pc = "ensured"
        /\ calls' = [calls EXCEPT ![s] =
               [debug(call, requestLog(call.op)) EXCEPT
                   !.pc = "awaitDomain",
                   !.domainReqs = call.domainReqs + 1,
                   !.req = domainRequest(call, requestKey[c])]]
        /\ last' = Nothing
        /\ UNCHANGED <<now, session>>

\* The continuation of get() / post() after `await this.ensureAuthenticated()`:
\* getRequestKey(), the URL, and fetch.
DomainSend(s) ==
    LET call == calls[s]
        c == call.client
    IN  /\ call.pc = "ensured"
        /\ IF getRequestKeyThrows(c)
           THEN /\ calls' = [calls EXCEPT ![s] = Idle]
                /\ last' = Finished(call, "NotAuthenticated", NoValue)
           ELSE /\ calls' = [calls EXCEPT ![s] =
                       [debug(call, requestLog(call.op)) EXCEPT
                       !.pc = "awaitDomain",
                       !.domainReqs = call.domainReqs + 1,
                       !.req = domainRequest(call, requestKey[c])]]
                /\ last' = Nothing
        /\ UNCHANGED <<now, session>>

\* domainOutcome taking a non-success status for a response with no results.
domainOutcomeSwallowing(op, resp) ==
    IF resp.failed THEN [kind |-> "TypeError"]
    ELSE IF ~resp.ok THEN EmptyEnvelope
    ELSE IF op = "get" THEN getBody(resp.body) ELSE postBody(resp.body)

\* What get() / post() makes of the response: the rejection, or the value.
domainOutcome(op, resp) ==
    IF resp.failed THEN [kind |-> "TypeError"]
    ELSE IF ~resp.ok THEN [kind |-> "ApiRequestFailed"]
    ELSE IF op = "get" THEN getBody(resp.body) ELSE postBody(resp.body)

\* DomainResponse dropping the session when the endpoint answers 401.
DomainResponseClearing(s, resp) ==
    LET call == calls[s]
        c == call.client
        out == accessorReturn(call.accessor, domainOutcome(call.op, resp))
    IN  /\ call.pc = "awaitDomain"
        /\ calls' = [calls EXCEPT ![s] = Idle]
        /\ last' = IF out.kind \in {"TypeError", "ApiRequestFailed", "SyntaxError"}
                   THEN Finished(call, out.kind, NoValue)
                   ELSE Finished(call, "ok", out)
        /\ IF ~resp.failed /\ resp.status = 401
           THEN /\ requestKey' = [requestKey EXCEPT ![c] = Null]
                /\ refreshKey' = [refreshKey EXCEPT ![c] = Null]
                /\ requestKeyExpiresAt' = [requestKeyExpiresAt EXCEPT ![c] = NullDate]
           ELSE UNCHANGED session
        /\ UNCHANGED now

\* DomainResponse with a second attempt after a non-success status.
DomainResponseRetrying(s, resp) ==
    LET call == calls[s]
        out == accessorReturn(call.accessor, domainOutcome(call.op, resp))
    IN  /\ call.pc = "awaitDomain"
        /\ IF out.kind = "ApiRequestFailed" /\ call.domainReqs < 2
           THEN /\ calls' = [calls EXCEPT ![s] = [call EXCEPT !.pc = "ensured"]]
                /\ last' = Nothing
           ELSE /\ calls' = [calls EXCEPT ![s] = Idle]
                /\ last' = IF out.kind \in {"TypeError", "ApiRequestFailed", "SyntaxError"}
                           THEN Finished(call, out.kind, NoValue)
                           ELSE Finished(call, "ok", out)
        /\ UNCHANGED <<now, session>>

\* The domain endpoint answers the request of the call in slot s; get() or
\* post() returns or throws, and so does the accessor that awaited it.
DomainResponse(s, resp) ==
    LET call == calls[s]
        out == accessorReturn(call.accessor, domainOutcome(call.op, resp))
        logged == IF responseLogged(call.op, resp)
                  THEN debug(call, responseLog(call.op)) ELSE call
    IN  /\ call.pc = "awaitDomain"
        /\ calls' = [calls EXCEPT ![s] = Idle]
        /\ last' = IF out.kind \in {"TypeError", "ApiRequestFailed", "SyntaxError"}
                   THEN Finished(logged, out.kind, NoValue)
                   ELSE Finished(logged, "ok", out)
        /\ UNCHANGED <<now, session>>

\* The constructor name of the error object behind each rejection: the
\* client's own throws are all `new Error(...)`; a rejected fetch is a
\* TypeError, a failed parse a SyntaxError, toISOString's a RangeError.
errorName(result) ==
    IF result \in {"TypeError", "SyntaxError", "RangeError"} THEN result ELSE "Error"

\* Half an hour passes.
Tick ==
    /\ now < MaxTick * StepMs
    /\ now' = now + StepMs
    /\ last' = Nothing
    /\ UNCHANGED <<session, calls>>

\* ----------------------------------------------------------- specification

Step(c) ==
    \/ \E s \in Slots : authenticate(s, c)
    \/ \E s \in Slots : refreshAuthentication(s, c)
    \/ \E s \in Slots, params \in ParamSets : get(s, c, params)
    \/ \E s \in Slots : post(s, c)
    \/ clearAuth(c)

Network ==
    \/ \E s \in Slots, resp \in KeyResponses : KeyResponse(s, resp)
    \/ \E s \in Slots : DomainSend(s)
    \/ \E s \in Slots, resp \in DomainResponses : DomainResponse(s, resp)

\* One instance, with up to two of its calls in flight.
Next == Step("c1") \/ Network \/ Tick

Spec == Init /\ [][Next]_vars

\* Two instances side by side.  The endpoints answer with well-formed bodies
\* here: a rejection, or one of two grants that expires at once or after the
\* clock's end; a domain response is a failure or an empty success.
TwoKeyResponses ==
    {r \in KeyResponses :
        /\ ~r.failed
        /\ r.json
        /\ r.ok => /\ Truthy(r.request_key) /\ Truthy(r.refresh_key)
                   /\ r.end_time.iso
                   /\ r.end_time.time \in {0, (MaxTick + 2) * StepMs}}

TwoDomainResponses == {r \in DomainResponses : ~r.failed /\ r.body = <<>>}

StepTwo(c) ==
    \/ \E s \in Slots : authenticate(s, c)
    \/ \E s \in Slots : refreshAuthentication(s, c)
    \/ \E s \in Slots : get(s, c, NoParams)
    \/ \E s \in Slots : post(s, c)
    \/ clearAuth(c)

NetworkTwo ==
    \/ \E s \in Slots, resp \in TwoKeyResponses : KeyResponse(s, resp)
    \/ \E s \in Slots : DomainSend(s)
    \/ \E s \in Slots, resp \in TwoDomainResponses : DomainResponse(s, resp)

NextTwo == StepTwo("c1") \/ StepTwo("c2") \/ NetworkTwo \/ Tick

SpecTwo == Init /\ [][NextTwo]_vars

\* One instance whose operations are called one at a time, through its
\* resource accessors; the clock stands still.  Parameter objects supply at most
\* MaxParams of the keys their type declares, with a falsy or a truthy value
\* each; the domain endpoint answers with a failure, an empty body, a number
\* or a paginated response of at most MaxItems transactions.
StringValues == {"", "John"}

NumberValues == {0, 7, 25}

ValuesOf(conv) ==
    CASE conv = "String" -> NumberValues
      [] conv = "true" -> BOOLEAN
      [] OTHER -> StringValues

RECURSIVE ParamObjects(_)
ParamObjects(fields) ==
    IF fields = <<>> THEN {NoParams}
    ELSE LET f == Head(fields)
             rest == ParamObjects(Tail(fields))
         IN  rest \cup {assign(p, f.key, v) :
                          p \in {r \in rest : Cardinality(DOMAIN r) < MaxParams},
                          v \in ValuesOf(f.conv)}

ListInputs ==
    [patients |-> ParamObjects(patientsFields), claims |-> ParamObjects(claimsFields),
     paymentTypes |-> ParamObjects(paymentTypesFields),
     transactions |-> ParamObjects(transactionsFields)]

ClaimIds == {"", "123"}

ItemTexts ==
    UNION {[1..n -> DOMAIN TransactionOf] : n \in 0..MaxItems}

ListResponses ==
    {[failed |-> FALSE, ok |-> FALSE, status |-> 401, body |-> <<>>]}
    \cup [failed : {FALSE}, ok : {TRUE}, status : {200},
          body : {<<>>, <<"1">>} \cup {<<"{">> \o m \o <<"}">> : m \in ItemTexts}]

Quiet == \A s \in Slots : calls[s].pc = "idle"

StepList(c) ==
    \/ \E s \in Slots : Quiet /\ authenticate(s, c)
    \/ \E s \in Slots, accessor \in ListAccessors :
          \E input \in ListInputs[accessor] : Quiet /\ list(s, c, accessor, input)
    \/ \E s \in Slots, claimSrNo \in ClaimIds : Quiet /\ listProcedures(s, c, claimSrNo)

NetworkList ==
    \/ \E s \in Slots, resp \in TwoKeyResponses : KeyResponse(s, resp)
    \/ \E s \in Slots : DomainSend(s)
    \/ \E s \in Slots, resp \in ListResponses : DomainResponse(s, resp)

NextList == StepList("c1") \/ NetworkList

SpecList == Init /\ [][NextList]_vars

\* One instance under concurrent use, its domain calls traced.  The token
\* endpoint rejects, or returns one of two responses that differ in all
\* three fields: one that expires at once and one that outlives the clock.
RaceKeyResponses ==
    {r \in KeyResponses :
        /\ ~r.failed
        /\ r.json
        /\ r.ok =>
              \/ /\ r.request_key = "rk1" /\ r.refresh_key = "fk1"
                 /\ r.end_time = [iso |-> TRUE, time |-> 0]
              \/ /\ r.request_key = "rk2" /\ r.refresh_key = "fk2"
                 /\ r.end_time = [iso |-> TRUE, time |-> (MaxTick + 2) * StepMs]}

StepRace(c) ==
    \/ \E s \in Slots : authenticate(s, c)
    \/ \E s \in Slots : refreshAuthentication(s, c)
    \/ \E s \in Slots : tracedGet(s, c)
    \/ \E s \in Slots : tracedPost(s, c)
    \/ clearAuth(c)

NetworkRace ==
    \/ \E s \in Slots, resp \in RaceKeyResponses : KeyResponse(s, resp)
    \/ \E s \in Slots : DomainSend(s)
    \/ \E s \in Slots, resp \in TwoDomainResponses : DomainResponse(s, resp)

NextRace == StepRace("c1") \/ NetworkRace \/ Tick

SpecRace == Init /\ [][NextRace]_vars

\* One instance whose token requests the endpoint rejects in every way, or
\* grants; the clock stands still, the first grant being due for refresh at
\* once.
StepErrors(c) ==
    \/ \E s \in Slots : authenticate(s, c)
    \/ \E s \in Slots : refreshAuthentication(s, c)
    \/ \E s \in Slots : get(s, c, NoParams)

NetworkErrors ==
    \/ \E s \in Slots, resp \in ErrorKeyResponses \cup RaceKeyResponses :
          KeyResponse(s, resp)
    \/ \E s \in Slots : DomainSend(s)
    \/ \E s \in Slots, resp \in TwoDomainResponses : DomainResponse(s, resp)

NextErrors == StepErrors("c1") \/ NetworkErrors

SpecErrors == Init /\ [][NextErrors]_vars

\* One instance whose token responses carry expires_in, with values that
\* agree with end_time and values that do not.
ExpiryKeyResponses ==
    {WithExpiresIn(r, n) : r \in RaceKeyResponses, n \in ExpiresInSeconds}

StepExpiry(c) ==
    \/ \E s \in Slots : authenticate(s, c)
    \/ \E s \in Slots : refreshAuthentication(s, c)
    \/ \E s \in Slots : get(s, c, NoParams)
    \/ \E s \in Slots : post(s, c)

NetworkExpiry ==
    \/ \E s \in Slots, resp \in ExpiryKeyResponses : KeyResponse(s, resp)
    \/ \E s \in Slots : DomainSend(s)
    \/ \E s \in Slots, resp \in TwoDomainResponses : DomainResponse(s, resp)

NextExpiry == StepExpiry("c1") \/ NetworkExpiry \/ Tick

SpecExpiry == Init /\ [][NextExpiry]_vars

\* One instance whose transport answers every request it is sent: each fetch
\* in flight is eventually settled, in any of the ways the endpoints can
\* answer, and the continuation of a settled await runs.  The clock stands
\* still, the first grant being due for refresh at once.
FairKeyResponses ==
    {r \in KeyResponses :
        (r.ok /\ r.json) =>
            /\ r.refresh_key = "fk1"
            /\ r.request_key \in {"rk1", ""}
            /\ r.end_time \in {[iso |-> TRUE, time |-> 0],
                                [iso |-> TRUE, time |-> (MaxTick + 2) * StepMs]}}

StepFair(c) ==
    \/ \E s \in Slots : authenticate(s, c)
    \/ \E s \in Slots : refreshAuthentication(s, c)
    \/ \E s \in Slots : get(s, c, NoParams)
    \/ \E s \in Slots : post(s, c)
    \/ clearAuth(c)

KeySettles(s) == \E resp \in FairKeyResponses : KeyResponse(s, resp)

DomainSettles(s) == \E resp \in DomainResponses : DomainResponse(s, resp)

NetworkFair ==
    \/ \E s \in Slots : KeySettles(s)
    \/ \E s \in Slots : DomainSend(s)
    \/ \E s \in Slots : DomainSettles(s)

NextFair == StepFair("c1") \/ NetworkFair

Fairness ==
    \A s \in Slots :
        /\ WF_vars(KeySettles(s))
        /\ WF_vars(DomainSend(s))
        /\ WF_vars(DomainSettles(s))

SpecFair == Init /\ [][NextFair]_vars /\ Fairness

\* ------------------------------------------------------------------ claims

\* Presence of a session field, as the client itself tests it.
TokenPresent(c) == Truthy(requestKey[c])

RefreshPresent(c) == Truthy(refreshKey[c])

ExpiryPresent(c) == requestKeyExpiresAt[c] # NullDate

AllAbsent(c) ==
    requestKey[c] = Null /\ refreshKey[c] = Null /\ requestKeyExpiresAt[c] = NullDate

\* The step just taken completed a call of one of `ops` with `result`.
Completed(ops, result) ==
    last.pc = "done" /\ last.op \in ops /\ last.result = result

\* C1: in every reachable state the token is present if and only if the
\* expiry is present.
C1_TokenIffExpiry ==
    \A c \in Clients : TokenPresent(c) <=> ExpiryPresent(c)

\* C2: right after a successful authenticate or refreshAuthentication the
\* token, the refresh token and the expiry are all present; right after
\* clearAuth all three are absent, getRequestKey raises and isAuthenticated
\* is false.
C2_AllThreeTogether ==
    /\ Completed({"authenticate", "refreshAuthentication"}, "ok") =>
           /\ TokenPresent(last.client)
           /\ RefreshPresent(last.client)
           /\ ExpiryPresent(last.client)
    /\ Completed({"clearAuth"}, "ok") =>
           /\ AllAbsent(last.client)
           /\ getRequestKeyThrows(last.client)
           /\ ~isAuthenticated(last.client)

\* A get or post of client c starts in this step, in slot s or rejected at once.
DomainCallStarts(s, c) ==
    \/ \E params \in ParamSets : get(s, c, params)
    \/ post(s, c)

\* The step puts a call of client c in the free slot s, or reports one.
Involves(s, c) ==
    calls[s].pc = "idle" /\ (calls'[s].client = c \/ last'.client = c)

\* The call that the step started or rejected.
Started(s) == IF calls'[s] # calls[s] THEN calls'[s] ELSE last'

\* C3: a domain call made with the token present and the expiry less than one
\* hour away sends exactly one refresh request and no domain request before
\* the refresh has completed; with the expiry one hour or more away it sends
\* no refresh request.
C3_LazyRefresh ==
    /\ [][\A s \in Slots, c \in Clients :
            (TokenPresent(c) /\ requestKeyExpiresAt[c].kind = "date"
               /\ Involves(s, c) /\ DomainCallStarts(s, c)) =>
              IF requestKeyExpiresAt[c].time < now + OneHourMs
              THEN /\ Started(s).pc = "awaitKey"
                   /\ Started(s).keyReqs = 1
                   /\ Started(s).domainReqs = 0
              ELSE /\ Started(s).pc = "ensured"
                   /\ Started(s).keyReqs = 0]_vars
    /\ [](\A s \in Slots :
            /\ calls[s].keyReqs <= 1
            /\ calls[s].pc = "awaitKey" => calls[s].domainReqs = 0)

\* C4: a get or post made while the token is absent is rejected with the
\* not-authenticated error, and sends no request at all.
C4_NotAuthenticated ==
    [][\A s \in Slots, c \in Clients :
         (~TokenPresent(c) /\ Involves(s, c) /\ DomainCallStarts(s, c)) =>
            /\ UNCHANGED calls
            /\ last'.pc = "done"
            /\ last'.op \in {"get", "post"}
            /\ last'.result = "NotAuthenticated"
            /\ last'.keyReqs = 0
            /\ last'.domainReqs = 0]_vars

C4_Witness ==
    /\ Completed({"get", "post"}, "NotAuthenticated")
    /\ last.keyReqs = 0 /\ last.domainReqs = 0
    /\ ~TokenPresent(last.client)

\* C5: isAuthenticated() is true exactly when the token is present and the
\* expiry is strictly after the current instant, with no look-ahead margin.
C5_IsAuthenticated ==
    \A c \in Clients :
        isAuthenticated(c) <=>
            /\ TokenPresent(c)
            /\ requestKeyExpiresAt[c].kind = "date"
            /\ requestKeyExpiresAt[c].time > now

\* A token that expires within the hour, so that the next domain call would
\* refresh, is still reported authenticated.
C5_Witness ==
    /\ isAuthenticated("c1")
    /\ ensureAuthenticated("c1") = "refresh"
    /\ requestKeyExpiresAt["c1"].time < now + OneHourMs

\* The answers of the token endpoint with a non-success status.
NonSuccessKeyResponses == {r \in KeyResponses : ~r.failed /\ ~r.ok}

\* C6: when the token endpoint answers a token request with a non-success
\* status, the call is rejected and no step of it has changed the session.
C6_RejectionKeepsSession ==
    [][\A s \in Slots :
         /\ (calls[s].pc = "idle" /\ calls'[s].pc = "awaitKey") => UNCHANGED session
         /\ (calls[s].pc = "awaitKey" /\ calls'[s] # calls[s]) =>
              \A resp \in NonSuccessKeyResponses :
                 KeyResponse(s, resp) =>
                    /\ UNCHANGED session
                    /\ last'.pc = "done"
                    /\ last'.result = "AuthenticationFailed"
                    /\ calls'[s] = Idle]_vars

\* An authenticate() on a never-authenticated client was rejected by the
\* endpoint, and the client still reports not authenticated.
C6_Witness ==
    /\ Completed({"authenticate"}, "AuthenticationFailed")
    /\ AllAbsent(last.client)
    /\ ~isAuthenticated(last.client)

\* C7: refreshAuthentication() called while the refresh token is absent is
\* rejected for the missing refresh token, sends no request and leaves the
\* session as it was (absent when it was absent).
C7_RefreshNeedsRefreshKey ==
    [][\A s \in Slots, c \in Clients :
         (~RefreshPresent(c) /\ Involves(s, c) /\ refreshAuthentication(s, c)) =>
            /\ UNCHANGED <<session, calls>>
            /\ last'.pc = "done"
            /\ last'.op = "refreshAuthentication"
            /\ last'.result = "NoRefreshKey"
            /\ last'.keyReqs = 0
            /\ (AllAbsent(c) => AllAbsent(c)')]_vars

C7_Witness ==
    /\ Completed({"refreshAuthentication"}, "NoRefreshKey")
    /\ last.keyReqs = 0
    /\ AllAbsent(last.client)

\* The refresh whose response is `resp` is rejected.
RefreshFails(resp) ==
    resp.failed \/ ~resp.ok \/ ~resp.json \/ ~resp.end_time.iso

FailingKeyResponses == {r \in KeyResponses : RefreshFails(r)}

\* C8: when the refresh that a get or post triggered fails, the domain call
\* is rejected with that failure and sends no domain request.
C8_RefreshFailureAborts ==
    [][\A s \in Slots :
         (calls[s].op \in {"get", "post"} /\ calls[s].pc = "awaitKey"
            /\ calls'[s] # calls[s]) =>
            \A resp \in FailingKeyResponses :
               KeyResponse(s, resp) =>
                  /\ calls'[s] = Idle
                  /\ last'.pc = "done"
                  /\ last'.op = calls[s].op
                  /\ last'.result \in {"TypeError", "AuthenticationFailed",
                                       "SyntaxError", "RangeError"}
                  /\ last'.domainReqs = 0]_vars

C8_Witness ==
    /\ Completed({"get", "post"}, "AuthenticationFailed")
    /\ last.keyReqs = 1
    /\ last.domainReqs = 0

\* A body that is empty or all whitespace.
Blank(text) == \A i \in 1..Len(text) : text[i] = " "

BlankResponses == {r \in DomainResponses : r.ok /\ Blank(r.body)}

\* C9: on a success response with an empty or all-whitespace body, get
\* returns an envelope with no items and post is rejected with a parse
\* failure.
C9_EmptyBody ==
    [][\A s \in Slots :
         (calls[s].pc = "awaitDomain" /\ calls'[s] # calls[s]) =>
            \A resp \in BlankResponses :
               DomainResponse(s, resp) =>
                  IF calls[s].op = "get"
                  THEN /\ last'.result = "ok"
                       /\ last'.value.kind = "envelope"
                       /\ last'.value.items = <<>>
                  ELSE /\ last'.result = "SyntaxError"
                       /\ last'.value = NoValue]_vars

C9_Witness ==
    /\ Completed({"get"}, "ok")
    /\ last.value = EmptyEnvelope

\* C10: every domain request carries the token of the session both as the
\* request_key query parameter and as the Request-Key header.
C10_KeyInQueryAndHeader ==
    [][\A s \in Slots :
         (calls[s].pc = "ensured" /\ calls'[s].pc = "awaitDomain") =>
            /\ calls'[s].req.query["request_key"] = requestKey[calls[s].client]
            /\ calls'[s].req.header = requestKey[calls[s].client]]_vars

\* The session triple of one instance.
sessionOf(c) == <<requestKey[c], refreshKey[c], requestKeyExpiresAt[c]>>

\* The step is a step of an operation of instance c: it completes or rejects
\* one (last), starts one or resumes one in a slot.
StepOf(c) ==
    \/ last'.client = c
    \/ \E s \in Slots :
          /\ calls'[s] # calls[s]
          /\ calls[s].client = c \/ calls'[s].client = c

\* C11: no step of an operation of one instance changes the token, the
\* refresh token or the expiry of another instance; a clearAuth on one
\* leaves the other authenticated with its own token.
C11_InstanceIsolation ==
    [][\A c \in Clients :
         /\ sessionOf(c)' # sessionOf(c) => StepOf(c)
         /\ \A d \in Clients \ {c} :
               StepOf(d) /\ ~StepOf(c) =>
                  /\ sessionOf(c)' = sessionOf(c)
                  /\ isAuthenticated(c)' = isAuthenticated(c)]_vars

\* c1 was just cleared while c2, authenticated with another token, still is.
C11_Witness ==
    /\ Completed({"clearAuth"}, "ok") /\ last.client = "c1"
    /\ AllAbsent("c1")
    /\ isAuthenticated("c2")
    /\ requestKey["c2"] = "rk2"

\* The requests a call has sent stay within one per endpoint.
SingleAttempt(call) ==
    /\ call.keyReqs <= 1
    /\ call.domainReqs <= 1
    /\ call.op \in {"authenticate", "refreshAuthentication"} => call.domainReqs = 0

\* C12: no call ever sends a second request to the token endpoint or to its
\* domain endpoint, and a call that a non-success status ended had sent
\* exactly one request there.
C12_NoRetry ==
    /\ \A s \in Slots : SingleAttempt(calls[s])
    /\ SingleAttempt(last)
    /\ Completed({"authenticate", "refreshAuthentication", "get", "post"},
                 "AuthenticationFailed") =>
           last.keyReqs = 1 /\ last.domainReqs = 0
    /\ Completed({"get", "post"}, "ApiRequestFailed") => last.domainReqs = 1

\* A get or post that refreshed first has just been ended by a non-success
\* status of its domain endpoint.
C12_Witness ==
    /\ Completed({"get", "post"}, "ApiRequestFailed")
    /\ last.keyReqs = 1
    /\ last.domainReqs = 1

\* The three failure classes, and the rejections that belong to each.
failureClass(result) ==
    CASE result = "NotAuthenticated" -> "absentToken"
      [] result \in {"AuthenticationFailed", "NoRefreshKey"} -> "authentication"
      [] result = "ApiRequestFailed" -> "apiRequest"
      [] OTHER -> "other"

ClassifiedFailures ==
    {"NotAuthenticated", "AuthenticationFailed", "NoRefreshKey", "ApiRequestFailed"}

\* C13: the error a call is rejected with differs in kind from the error of
\* every failure of another class (absent token, authentication, domain
\* request), so that the kind alone tells the class.
C13_DistinctErrorKinds ==
    (last.pc = "done" /\ last.result \in ClassifiedFailures) =>
        \A r \in ClassifiedFailures :
            failureClass(r) # failureClass(last.result) =>
                errorName(r) # errorName(last.result)

\* The declared type of each parameter key that is not a string.
NumberKeys == {"limit", "offset"}

BooleanKeys == {"is_adjustment_type", "is_debit_adjustment_type",
                "is_insurance_type", "are_credit_card_details_required"}

\* The caller supplied key k with a non-empty, non-zero or true value.
Supplied(input, k) ==
    CASE k \in NumberKeys -> input[k] # 0
      [] k \in BooleanKeys -> input[k] = TRUE
      [] OTHER -> input[k] # ""

\* The decimal numeral of each number a caller passes here.
Decimal(n) == CASE n = 0 -> "0" [] n = 7 -> "7" [] n = 25 -> "25"

\* What the query must carry for key k.
Sent(input, k) ==
    CASE k \in NumberKeys -> Decimal(input[k])
      [] k \in BooleanKeys -> "true"
      [] OTHER -> input[k]

\* C14: the query of the request a list accessor sends has exactly the keys
\* request_key and the keys its caller supplied with a non-empty, non-zero or
\* true value; a number goes as its decimal numeral, a true flag as "true",
\* a string as it is.
C14_ListQuery ==
    [][\A s \in Slots :
         (/\ calls[s].pc = "ensured"
          /\ calls'[s].pc = "awaitDomain"
          /\ calls[s].accessor \in ListAccessors) =>
            LET input == calls[s].input
                query == calls'[s].req.query
                kept == {k \in DOMAIN input : Supplied(input, k)}
            IN  /\ DOMAIN query = {"request_key"} \cup kept
                /\ query["request_key"] = requestKey[calls[s].client]
                /\ \A k \in kept : query[k] = Sent(input, k)]_vars

\* paymentTypes.list({is_insurance_type: true, is_adjustment_type: false})
\* and patients.list({firstname: 'John', limit: 25}) have been sent.
C14_Witness ==
    \E s \in Slots :
        /\ calls[s].pc = "awaitDomain"
        /\ \/ /\ calls[s].accessor = "paymentTypes"
              /\ calls[s].input = [is_insurance_type |-> TRUE, is_adjustment_type |-> FALSE]
              /\ DOMAIN calls[s].req.query = {"request_key", "is_insurance_type"}
              /\ calls[s].req.query["is_insurance_type"] = "true"
           \/ /\ calls[s].accessor = "patients"
              /\ calls[s].input = [firstname |-> "John", limit |-> 25]
              /\ calls[s].req.query["limit"] = "25"

\* The success responses whose body is a paginated response, and the item
\* sequence each returns.
PaginatedResponses ==
    {r \in ListResponses : r.ok /\ Len(r.body) >= 2 /\ r.body[1] = "{"}

ReturnedItems(resp) ==
    [i \in 1..(Len(resp.body) - 2) |-> TransactionOf[resp.body[i + 1]]]

\* The entries of `items` of type "Procedure", in their order.
RECURSIVE ProceduresOf(_)
ProceduresOf(items) ==
    IF items = <<>> THEN <<>>
    ELSE IF items[Len(items)].transaction_type = "Procedure"
         THEN Append(ProceduresOf(SubSeq(items, 1, Len(items) - 1)), items[Len(items)])
         ELSE ProceduresOf(SubSeq(items, 1, Len(items) - 1))

\* The request of listProcedures(claimId): one GET, filtered by claim_sr_no =
\* claimId and by nothing else.
ProceduresRequest ==
    \A s \in Slots :
        (/\ calls[s].pc = "ensured"
         /\ calls'[s].pc = "awaitDomain"
         /\ calls[s].accessor = "listProcedures") =>
            /\ calls'[s].domainReqs = 1
            /\ calls'[s].req.method = "GET"
            /\ DOMAIN calls'[s].req.query = {"request_key", "claim_sr_no"}
            /\ calls'[s].req.query["claim_sr_no"] = calls[s].input.claimSrNo

\* The result of listProcedures on a paginated response.
ProceduresResult ==
    \A s \in Slots :
        (/\ calls[s].pc = "awaitDomain"
         /\ calls[s].accessor = "listProcedures"
         /\ calls'[s] # calls[s]) =>
            \A resp \in PaginatedResponses :
                DomainResponse(s, resp) =>
                    /\ last'.result = "ok"
                    /\ last'.value.kind = "list"
                    /\ last'.value.items = ProceduresOf(ReturnedItems(resp))
                    /\ last'.domainReqs = 1

\* C15: listProcedures(claimId) sends one transaction-list GET whose only
\* filter is claim_sr_no = claimId, and returns the entries of the returned
\* item sequence whose transaction_type is "Procedure", in their order.
C15_ListProcedures == [][ProceduresRequest /\ ProceduresResult]_vars

\* The step is a clearAuth() of instance c.
ClearAuthStep(c) == last'.pc = "done" /\ last'.op = "clearAuth" /\ last'.client = c

\* C16: a clearAuth() leaves the triple absent whatever it was, sends no
\* request and touches no call in flight; a clearAuth() that follows a
\* clearAuth() changes nothing at all.
C16_ClearAuthIdempotent ==
    [][\A c \in Clients :
         ClearAuthStep(c) =>
            /\ AllAbsent(c)'
            /\ UNCHANGED <<calls, now>>
            /\ last'.keyReqs = 0 /\ last'.domainReqs = 0
            /\ (last.pc = "done" /\ last.op = "clearAuth" /\ last.client = c) =>
                  UNCHANGED vars]_vars

\* The session was cleared while a domain request stamped with its token is
\* still in flight: the triple was present, and the request is untouched.
C16_Witness ==
    /\ Completed({"clearAuth"}, "ok")
    /\ AllAbsent(last.client)
    /\ \E s \in Slots :
          /\ calls[s].client = last.client
          /\ calls[s].pc = "awaitDomain"
          /\ Truthy(calls[s].req.header)

\* The step sends the domain request of a call in slot s that refreshed.
SendsAfterRefresh(s) ==
    /\ calls[s].traced
    /\ calls[s].pc = "ensured"
    /\ calls'[s].pc = "awaitDomain"
    /\ calls[s].keyReqs = 1

\* C17: the domain request of a call whose implicit refresh succeeded is
\* stamped with the token that refresh returned.
C17_StampedWithRefreshedToken ==
    [][\A s \in Slots :
         SendsAfterRefresh(s) => calls'[s].req.header = calls[s].granted]_vars

\* The step completes, with success, the refresh of a get or post in slot s.
RefreshLands(s) ==
    /\ calls[s].traced
    /\ calls[s].pc = "awaitKey"
    /\ calls'[s].pc = "ensured"

\* C17, amended: the refresh has put the token it returned in the session
\* by the time the call resumes, and the domain request that follows is
\* stamped with the token the session holds when the request is built, not
\* with one read before the refresh.
C17_StampedAfterRefresh ==
    [][\A s \in Slots :
         /\ RefreshLands(s) =>
               /\ requestKey'[calls[s].client] = calls'[s].granted
               /\ calls'[s].domainReqs = 0
         /\ SendsAfterRefresh(s) =>
               calls'[s].req.header = requestKey[calls[s].client]]_vars

\* A request in flight carries the token its call's refresh returned, which
\* is not the token the session held when the call started.
C17_Witness ==
    \E s \in Slots :
        /\ calls[s].traced
        /\ calls[s].pc = "awaitDomain"
        /\ calls[s].keyReqs = 1
        /\ calls[s].req.header = calls[s].granted
        /\ calls[s].granted # calls[s].startKey

\* Slot s holds a get or post of instance c whose refresh request is in flight.
RefreshInFlight(s, c) ==
    /\ calls[s].op \in {"get", "post"}
    /\ calls[s].client = c
    /\ calls[s].pc = "awaitKey"
    /\ calls[s].keyBody.grant_type = "refresh_key"

\* C18: a domain call that starts while the token is less than one hour
\* from expiry sends its own refresh request, carrying the refresh token of
\* the session, whether or not a refresh of the same instance is already in
\* flight; nothing makes it wait for the other.
C18_RefreshNotSerialized ==
    [][\A s \in Slots, c \in Clients :
         (/\ TokenPresent(c) /\ RefreshPresent(c)
          /\ requestKeyExpiresAt[c].kind = "date"
          /\ requestKeyExpiresAt[c].time < now + OneHourMs
          /\ Involves(s, c) /\ DomainCallStarts(s, c)) =>
            /\ calls'[s].pc = "awaitKey"
            /\ calls'[s].keyBody.grant_type = "refresh_key"
            /\ calls'[s].keyBody.refresh_key = refreshKey[c]
            /\ \A t \in Slots \ {s} : calls'[t] = calls[t]]_vars

\* Two refresh requests of one instance are in flight at the same time, both
\* carrying the same refresh token.
C18_Witness ==
    \E s, t \in Slots :
        /\ s # t
        /\ RefreshInFlight(s, "c1") /\ RefreshInFlight(t, "c1")
        /\ calls[s].keyBody.refresh_key = calls[t].keyBody.refresh_key
        /\ Truthy(calls[s].keyBody.refresh_key)

\* The triple a success response of the token endpoint puts in the session.
TripleOf(resp) == <<resp.request_key, resp.refresh_key, NewDate(resp.end_time)>>

\* C19: under every interleaving of authenticate, refreshAuthentication,
\* clearAuth and domain calls on one instance, the session triple is absent
\* as a whole or is, as a whole, the triple of one response of the token
\* endpoint.
C19_TripleFromOneResponse ==
    \A c \in Clients :
        \/ AllAbsent(c)
        \/ \E resp \in RaceKeyResponses : resp.ok /\ sessionOf(c) = TripleOf(resp)

\* A token response has replaced the session while a refresh request sent
\* under the previous session is still in flight.
C19_Witness ==
    /\ Completed({"authenticate", "refreshAuthentication"}, "ok")
    /\ sessionOf("c1") = <<"rk2", "fk2", ValidDate((MaxTick + 2) * StepMs)>>
    /\ \E s \in Slots :
          /\ calls[s].pc = "awaitKey"
          /\ calls[s].keyBody.grant_type = "refresh_key"
          /\ calls[s].keyBody.refresh_key = "fk1"

\* A field of the error body is present.
Present(v) == v \notin {Undefined, Null}

\* The fallback: status code and reason phrase.
Fallback(resp) ==
    CASE resp.status = 401 -> "401 Unauthorized"
      [] resp.status = 500 -> "500 Internal Server Error"

\* The detail the error must carry for a non-success response.
ExpectedDetail(resp) ==
    IF resp.errorBody.kind # "object" THEN Fallback(resp)
    ELSE IF Present(resp.errorBody.error_description) THEN resp.errorBody.error_description
    ELSE IF Present(resp.errorBody.error) THEN resp.errorBody.error
    ELSE IF Present(resp.errorBody.message) THEN resp.errorBody.message
    ELSE Fallback(resp)

\* C20: a token request answered with a non-success status is rejected with
\* the message "Sikka authentication failed: " followed by error_description
\* of the body if present, else error, else message, else the status code and
\* reason phrase; a body that does not parse gives the status code and
\* reason phrase.
C20_ErrorMessagePriority ==
    [][\A s \in Slots :
         (calls[s].pc = "awaitKey" /\ calls'[s] # calls[s]) =>
            \A resp \in ErrorKeyResponses :
               KeyResponse(s, resp) =>
                  /\ last'.result = "AuthenticationFailed"
                  /\ last'.value.kind = "message"
                  /\ last'.value.text =
                        "Sikka authentication failed: " \o ExpectedDetail(resp)]_vars

\* authenticate() has been rejected with the error_description of a body
\* that also carried an error.
C20_Witness ==
    /\ Completed({"authenticate"}, "AuthenticationFailed")
    /\ last.value = [kind |-> "message",
                     text |-> "Sikka authentication failed: Invalid secret key"]

\* The step sends a token request from the free slot s.
SendsKeyRequest(s) == calls[s].pc = "idle" /\ calls'[s].pc = "awaitKey"

\* C21: the key-request of authenticate() carries the instance's app id, app
\* key, office id and office secret with grant kind request_key; the
\* key-request of a refresh carries app id, app key, grant kind refresh_key
\* and the refresh token the session holds, and neither office id nor office
\* secret.
C21_KeyRequestBodies ==
    [][\A s \in Slots :
         SendsKeyRequest(s) =>
            LET c == calls'[s].client
                body == calls'[s].keyBody
            IN  /\ body.app_id = credentials[c].appId
                /\ body.app_key = credentials[c].appKey
                /\ IF calls'[s].op = "authenticate"
                   THEN /\ body.grant_type = "request_key"
                        /\ body.office_id = credentials[c].officeId
                        /\ body.secret_key = credentials[c].secretKey
                   ELSE /\ body.grant_type = "refresh_key"
                        /\ body.refresh_key = refreshKey[c]
                        /\ Truthy(body.refresh_key)
                        /\ body.office_id = Null
                        /\ body.secret_key = Null]_vars

\* An authenticate() of one instance and a refreshAuthentication() of the
\* other are in flight, each with its own body.
C21_Witness ==
    \E s, t \in Slots :
        /\ calls[s].op = "authenticate" /\ calls[s].pc = "awaitKey"
        /\ calls[s].client = "c1"
        /\ calls[s].keyBody.office_id = "office-c1"
        /\ calls[t].op = "refreshAuthentication" /\ calls[t].pc = "awaitKey"
        /\ calls[t].client = "c2"
        /\ calls[t].keyBody.refresh_key = "fk2"
        /\ calls[t].keyBody.office_id = Null

\* C22: every get() or post() that returns successfully has emitted its
\* request log entry before sending and its response log entry after
\* receiving, in that order.
C22_LoggedBeforeAndAfter ==
    Completed({"get", "post"}, "ok") =>
        \E i, j \in 1..Len(last.logs) :
            /\ i < j
            /\ last.logs[i] = requestLog(last.op)
            /\ last.logs[j] = responseLog(last.op)

\* C23: after a successful authenticate() or refresh the expiry is the
\* instant of the response's end_time, and the same response with any other
\* expires_in leads to the same state, hence to the same refresh decisions.
C23_ExpiryFromEndTime ==
    [][\A s \in Slots :
         calls[s].pc = "awaitKey" =>
            \A r \in {x \in ExpiryKeyResponses : x.ok} :
                KeyResponse(s, r) =>
                   \A c \in {calls[s].client} :
                       /\ requestKeyExpiresAt'[c] = ValidDate(r.end_time.time)
                       /\ needsRefresh(c)' <=> (r.end_time.time < now + OneHourMs)
                       /\ \A n \in ExpiresInSeconds :
                             KeyResponse(s, WithExpiresIn(r, n))]_vars

\* authenticate() has succeeded half an hour after the start on a response
\* whose end_time is an hour and a half after the start: the expiry is that
\* instant, whatever expires_in said, and no refresh is due.
C23_Witness ==
    /\ Completed({"authenticate", "refreshAuthentication"}, "ok")
    /\ now = StepMs
    /\ requestKeyExpiresAt["c1"] = ValidDate((MaxTick + 2) * StepMs)
    /\ ~needsRefresh("c1")

\* The answers of an endpoint that the calls must surface as rejections: a
\* non-success status, or a success status whose body the call fails to
\* parse (get() does not parse a blank body).
KeyFailures == {r \in FairKeyResponses : ~r.failed /\ (~r.ok \/ ~r.json)}

DomainFailure(op, r) ==
    /\ ~r.failed
    /\ \/ ~r.ok
       \/ /\ JSONparse(r.body).kind = "SyntaxError"
          /\ op = "get" => ~Blank(r.body)

\* The step ends the call that was in slot s with a rejection.
Rejects(s) ==
    /\ calls'[s] = Idle
    /\ last'.pc = "done"
    /\ last'.op = calls[s].op
    /\ last'.result # "ok"

\* C24: with a transport that answers every request, every call in flight
\* eventually finishes; and a get or post that finds the token absent, a call
\* whose token or domain request meets a non-success status, and a call
\* whose success body fails to parse, each end with a rejection, never with a
\* normal result.
C24_NoFailureSwallowed ==
    /\ \A s \in Slots : (calls[s].pc # "idle") ~> (calls[s].pc = "idle")
    /\ [][\A s \in Slots :
            /\ (calls[s].pc = "idle" /\ ~TokenPresent("c1")
                  /\ (get(s, "c1", NoParams) \/ post(s, "c1"))) =>
                   /\ UNCHANGED calls
                   /\ last'.pc = "done"
                   /\ last'.op \in {"get", "post"}
                   /\ last'.result = "NotAuthenticated"
            /\ (calls[s].pc = "awaitKey" /\ calls'[s] # calls[s]) =>
                   \A resp \in KeyFailures : KeyResponse(s, resp) => Rejects(s)
            /\ (calls[s].pc = "ensured" /\ calls'[s] # calls[s]
                  /\ ~TokenPresent(calls[s].client)) => Rejects(s)
            /\ (calls[s].pc = "awaitDomain" /\ calls'[s] # calls[s]) =>
                   \A resp \in DomainResponses :
                      (DomainFailure(calls[s].op, resp) /\ DomainResponse(s, resp))
                         => Rejects(s)]_vars

\* A post() whose refresh succeeded has ended on a success response whose body
\* does not parse.
C24_Witness ==
    /\ Completed({"post"}, "SyntaxError")
    /\ last.keyReqs = 1
    /\ last.domainReqs = 1

\* C25: under every interleaving of get and post with clearAuth, authenticate
\* and refreshAuthentication on one instance, every domain request in flight
\* carries a present token, in its header and in the request_key the client
\* put in the query; and a call that finds the token absent when it resumes
\* after ensureAuthenticated() is rejected as not authenticated and sends
\* nothing.
C25_SentWithPresentToken ==
    /\ [](\A s \in Slots :
            calls[s].pc = "awaitDomain" =>
               /\ Truthy(calls[s].req.header)
               /\ "request_key" \notin DOMAIN calls[s].params =>
                      Truthy(calls[s].req.query["request_key"]))
    /\ [][\A s \in Slots :
            (calls[s].pc = "ensured" /\ calls'[s] # calls[s]) =>
               IF TokenPresent(calls[s].client)
               THEN /\ calls'[s].pc = "awaitDomain"
                    /\ calls'[s].req.header = requestKey[calls[s].client]
               ELSE /\ calls'[s] = Idle
                    /\ last'.pc = "done"
                    /\ last'.op = calls[s].op
                    /\ last'.result = "NotAuthenticated"
                    /\ last'.domainReqs = 0]_vars

\* A call whose refresh succeeded has found the token absent on resuming and
\* has been rejected, while the request of another call is in flight with
\* the token it read.
C25_Witness ==
    /\ Completed({"get", "post"}, "NotAuthenticated")
    /\ last.keyReqs = 1
    /\ last.domainReqs = 0
    /\ \E s \in Slots :
          /\ calls[s].pc = "awaitDomain"
          /\ Truthy(calls[s].req.header)

\* C26: a clearAuth() does not cancel a token request in flight: when the
\* response of a request that was pending while the session was cleared
\* arrives and is a success, the triple is populated from it and the
\* instance is authenticated again up to the end_time granted.
C26_ClearAuthDoesNotCancel ==
    [][\A s \in Slots :
         (calls[s].pc = "awaitKey" /\ calls'[s] # calls[s]
            /\ AllAbsent(calls[s].client)) =>
            \A resp \in {r \in RaceKeyResponses : r.ok} :
               KeyResponse(s, resp) =>
                  \A c \in {calls[s].client} :
                     /\ sessionOf(c)' = TripleOf(resp)
                     /\ TokenPresent(c)'
                     /\ isAuthenticated(c)' <=> (resp.end_time.time > now)]_vars

\* clearAuth() was the last operation invoked and has emptied the session
\* while a refresh request, sent with the refresh token the session held, is
\* still pending.
C26_Witness ==
    /\ Completed({"clearAuth"}, "ok")
    /\ AllAbsent("c1")
    /\ \E s \in Slots :
          /\ calls[s].op = "refreshAuthentication"
          /\ calls[s].pc = "awaitKey"
          /\ calls[s].keyBody.refresh_key = "fk2"

\* The step resumes the call in slot s after its refresh succeeded.
ResumesAfterRefresh(s) ==
    /\ calls[s].traced
    /\ calls[s].pc = "ensured"
    /\ calls[s].keyReqs = 1
    /\ calls'[s] # calls[s]

\* C27: a call whose refresh succeeded sends its domain request with the
\* token that refresh returned, whatever the end_time granted, and sends no
\* second refresh.
C27_SentWithNewToken ==
    [][\A s \in Slots :
         ResumesAfterRefresh(s) =>
            /\ calls'[s].pc = "awaitDomain"
            /\ calls'[s].keyReqs = 1
            /\ calls'[s].req.header = calls[s].granted]_vars

\* C27, amended: no call sends a second refresh; a refresh that succeeds
\* resumes the call even when the end_time granted is within the hour or
\* past; the call then sends its domain request with the token the session
\* holds at that moment, which is the new token while nothing has replaced
\* it, and is rejected as not authenticated when the session has been
\* cleared meanwhile.
C27_NoSecondRefresh ==
    /\ [](\A s \in Slots : calls[s].keyReqs <= 1)
    /\ [][\A s \in Slots :
            /\ RefreshLands(s) =>
                  /\ calls'[s].keyReqs = 1
                  /\ calls'[s].domainReqs = 0
                  /\ requestKey'[calls[s].client] = calls'[s].granted
            /\ ResumesAfterRefresh(s) =>
                  IF TokenPresent(calls[s].client)
                  THEN /\ calls'[s].pc = "awaitDomain"
                       /\ calls'[s].keyReqs = 1
                       /\ calls'[s].domainReqs = 1
                       /\ calls'[s].req.header = requestKey[calls[s].client]
                       /\ requestKey[calls[s].client] = calls[s].granted =>
                              calls'[s].req.header = calls[s].granted
                  ELSE /\ calls'[s] = Idle
                       /\ last'.result = "NotAuthenticated"
                       /\ last'.keyReqs = 1
                       /\ last'.domainReqs = 0]_vars

\* The request of a call is in flight with the token its refresh returned,
\* the only token request the call sent, while the expiry that refresh
\* stored is still less than an hour away.
C27_Witness ==
    \E s \in Slots :
        /\ calls[s].traced
        /\ calls[s].pc = "awaitDomain"
        /\ calls[s].keyReqs = 1
        /\ calls[s].req.header = calls[s].granted
        /\ requestKey[calls[s].client] = calls[s].granted
        /\ needsRefresh(calls[s].client)

\* C28: a domain request that ends on a non-success status of any code, or
\* on a success body that fails to parse, leaves the session triple as it
\* was and starts nothing: the call is rejected having sent no token request
\* on that account, no other call is touched, and the next domain call
\* meets the same token and the same refresh decision.
C28_DomainFailureKeepsSession ==
    [][\A s \in Slots :
         (calls[s].pc = "awaitDomain" /\ calls'[s] # calls[s]) =>
            \A resp \in DomainResponses :
               (DomainFailure(calls[s].op, resp) /\ DomainResponse(s, resp)) =>
                  /\ UNCHANGED session
                  /\ \A t \in Slots \ {s} : calls'[t] = calls[t]
                  /\ calls'[s] = Idle
                  /\ last'.result \in {"ApiRequestFailed", "SyntaxError"}
                  /\ last'.keyReqs = calls[s].keyReqs
                  /\ last'.domainReqs = 1
                  /\ \A c \in {calls[s].client} :
                        /\ ensureAuthenticated(c)' = ensureAuthenticated(c)
                        /\ getRequestKeyThrows(c)' = getRequestKeyThrows(c)]_vars

\* A get() that needed no refresh has been rejected for a non-success
\* status, and the instance is still authenticated: the next call passes.
C28_Witness ==
    /\ Completed({"get"}, "ApiRequestFailed")
    /\ last.keyReqs = 0
    /\ isAuthenticated("c1")
    /\ ensureAuthenticated("c1") = "pass"

\* Another token request of the same instance is in flight beside slot s.
OtherKeyRequest(s) ==
    \E t \in Slots \ {s} :
        /\ calls[t].pc = "awaitKey"
        /\ calls[t].client = calls[s].client

\* C29: of the token requests in flight on one instance, each success
\* response replaces the whole triple by its own when it completes, in
\* whichever slot order the requests were issued: after the first completes
\* the session is its triple, and after the last completes nothing of the
\* earlier triple is left.
C29_LastResponseWins ==
    [][\A s \in Slots :
         (calls[s].pc = "awaitKey" /\ calls'[s] # calls[s]) =>
            \A resp \in {r \in RaceKeyResponses : r.ok} :
               KeyResponse(s, resp) =>
                  \A c \in {calls[s].client} :
                     /\ sessionOf(c)' = TripleOf(resp)
                     /\ (~OtherKeyRequest(s) /\ sessionOf(c) # TripleOf(resp)
                           /\ ~AllAbsent(c)) =>
                            /\ requestKey'[c] # requestKey[c]
                            /\ refreshKey'[c] # refreshKey[c]
                            /\ requestKeyExpiresAt'[c] # requestKeyExpiresAt[c]]_vars

\* Of an authenticate() and a refreshAuthentication() that were in flight
\* together, the refresh has just succeeded and the session is its triple;
\* the authenticate is still to complete.
C29_Witness ==
    /\ Completed({"refreshAuthentication"}, "ok")
    /\ sessionOf("c1") = <<"rk2", "fk2", ValidDate((MaxTick + 2) * StepMs)>>
    /\ \E s \in Slots :
          /\ calls[s].op = "authenticate"
          /\ calls[s].pc = "awaitKey"

\* The step ends the authenticate() or refreshAuthentication() of slot s with
\* a rejection.
KeyCallRejected(s) ==
    /\ calls[s].op \in {"authenticate", "refreshAuthentication"}
    /\ calls[s].pc = "awaitKey"
    /\ calls'[s] = Idle
    /\ last'.pc = "done"
    /\ last'.result # "ok"

\* C30: whenever authenticate() or refreshAuthentication() is rejected, for a
\* transport failure, a non-success status, a success body that is not JSON
\* or an end_time that is no instant, the session triple is what it was
\* before the call: no step of the call has changed it.
C30_RejectionLeavesSession ==
    [][\A s \in Slots :
         /\ (calls[s].pc = "idle" /\ calls'[s].pc = "awaitKey") => UNCHANGED session
         /\ KeyCallRejected(s) => UNCHANGED session]_vars

====
